---- MODULE Spec2Model ----
(***************************************************************************)
(* A model of the Gemini Text-to-SQL web application: the CSV parser, the  *)
(* table loader and the query executor of services/dbService, the chart    *)
(* selection of components/SqlVisualizer, and the conversation             *)
(* orchestrator of App.tsx.                                                *)
(*                                                                         *)
(* A JavaScript string is modelled as a sequence of one-character strings  *)
(* (one element per UTF-16 code unit), so that trimming, splitting and     *)
(* regular-expression tests are computed character by character.           *)
(***************************************************************************)
EXTENDS Integers, Sequences, FiniteSets, TLC

VARIABLES
  view,            \* App: AppView.LOGIN or AppView.DASHBOARD
  tables,          \* App: the session's TableSchema list
  messages,        \* App: the chat log
  input,           \* App: the text of the question box
  isLoading,       \* App: the loading indicator
  showKaggleModal, \* App: whether the Kaggle import dialog is open
  geminiRef,       \* App: whether geminiRef.current holds a GeminiService
  alasql,          \* window.alasql: whether it is loaded, and its tables
  uploads,         \* the processFile calls that have not completed
  questions,       \* the handleSendMessage calls awaiting generateSQL
  history,         \* for each loaded table name, the file of its last load
                   \* and the rowCount that load returned
  steps,           \* the numbers of logins, loads and questions started
  dateImpl,        \* how the host parses and prints a D-Mon-YYYY date
  call,            \* the function applied to drawn inputs, and the inputs
  ret              \* what that application returned

vars ==
  <<view, tables, messages, input, isLoading, showKaggleModal, geminiRef, alasql,
    uploads, questions, history, steps, dateImpl, call, ret>>

\* ------------------------------------------------------------------------
\* Characters
\* ------------------------------------------------------------------------

\* The byte-order mark U+FEFF, one code unit.
BOM == "<U+FEFF>"

DQ == "\""

DigitSeq == <<"0", "1", "2", "3", "4", "5", "6", "7", "8", "9">>

LowerSeq ==
  <<"a", "b", "c", "d", "e", "f", "g", "h", "i", "j", "k", "l", "m",
    "n", "o", "p", "q", "r", "s", "t", "u", "v", "w", "x", "y", "z">>

UpperSeq ==
  <<"A", "B", "C", "D", "E", "F", "G", "H", "I", "J", "K", "L", "M",
    "N", "O", "P", "Q", "R", "S", "T", "U", "V", "W", "X", "Y", "Z">>

Range(f) == {f[i] : i \in DOMAIN f}

Digits == Range(DigitSeq)

Letters == Range(LowerSeq) \cup Range(UpperSeq)

\* The characters the regular-expression class \s and String.prototype.trim
\* treat as white space, among the characters of the model.
WhiteSpace == {" ", "\t", "\n", "\r", BOM}

\* [a-zA-Z0-9_]
IsWordChar(c) == c \in Letters \cup Digits \cup {"_"}

IndexIn(seq, c) == CHOOSE i \in DOMAIN seq : seq[i] = c

DigitVal(c) == IndexIn(DigitSeq, c) - 1

\* String.prototype.toLowerCase on one character.
LowerChar(c) == IF c \in Range(UpperSeq) THEN LowerSeq[IndexIn(UpperSeq, c)] ELSE c

toLowerCase(s) == [i \in DOMAIN s |-> LowerChar(s[i])]

\* ------------------------------------------------------------------------
\* String primitives
\* ------------------------------------------------------------------------

\* The operations on whole lines and texts are stated position by position
\* (which characters are kept, and as what) rather than by recursion over
\* the characters.

\* The 1-based positions of s that hold a character of the set cs.
Positions(s, cs) == {i \in DOMAIN s : s[i] \in cs}

Min(S) == CHOOSE x \in S : \A y \in S : x <= y

Max(S) == CHOOSE x \in S : \A y \in S : x >= y

\* String.prototype.trim: from the first to the last position that holds no
\* white space.
LastOf(S) == IF S = {} THEN 0 ELSE Max(S)

Solid(s) == DOMAIN s \ Positions(s, WhiteSpace)

trim(s) == SubSeq(s, IF Solid(s) = {} THEN 1 ELSE Min(Solid(s)), LastOf(Solid(s)))

\* s.startsWith(p) and s.endsWith(p)
startsWith(s, p) == Len(p) <= Len(s) /\ SubSeq(s, 1, Len(p)) = p

endsWith(s, p) == Len(p) <= Len(s) /\ SubSeq(s, Len(s) - Len(p) + 1, Len(s)) = p

\* s.includes(p)
includes(s, p) ==
  \E i \in 1..(Len(s) - Len(p) + 1) : SubSeq(s, i, i + Len(p) - 1) = p

\* s.substring(a, b) with 0-based a, b: both are clamped to [0, length] and
\* swapped when a > b.
Clamp(x, n) == IF x < 0 THEN 0 ELSE IF x > n THEN n ELSE x

Lesser(a, b) == IF a <= b THEN a ELSE b

Greater(a, b) == IF a <= b THEN b ELSE a

substring(s, a, b) ==
  SubSeq(s, Lesser(Clamp(a, Len(s)), Clamp(b, Len(s))) + 1,
            Greater(Clamp(a, Len(s)), Clamp(b, Len(s))))

\* s.padStart(n, '0')
padStart0(s, n) == [i \in 1..(IF Len(s) >= n THEN 0 ELSE n - Len(s)) |-> "0"] \o s

\* The characters of marked that are not the empty string: marked gives,
\* for each position of a string, the character it becomes, or "" when the
\* position is dropped.
Kept(marked) == SelectSeq(marked, LAMBDA c : c # "")

\* s.replace(/c/g, '') for one character c
removeChar(s, c) == SelectSeq(s, LAMBDA x : x # c)

\* s.replace(/""/g, '"'): in a run of double quotes the matches are the
\* pairs counted from the start of the run, and each loses its second quote.
RunStart(s, i) == Max({j \in 1..i : j = 1 \/ s[j - 1] # DQ})

halveQuotes(s) ==
  Kept([i \in DOMAIN s |-> IF s[i] = DQ /\ (i - RunStart(s, i)) % 2 = 1 THEN "" ELSE s[i]])

\* s.replace(/\s+/g, '_'): every maximal run of white space becomes one '_'.
replaceSpaceRuns(s) ==
  Kept([i \in DOMAIN s |->
          IF s[i] \notin WhiteSpace THEN s[i]
          ELSE IF i > 1 /\ s[i - 1] \in WhiteSpace THEN "" ELSE "_"])

\* s.replace(/_+/g, '_')
collapseUnderscores(s) ==
  Kept([i \in DOMAIN s |-> IF s[i] = "_" /\ i > 1 /\ s[i - 1] = "_" THEN "" ELSE s[i]])

\* text.replace(/\r\n/g, '\n').replace(/\r/g, '\n'): a carriage return
\* before a line feed is dropped, any other becomes a line feed.
normalizeLineEndings(text) ==
  Kept([i \in DOMAIN text |->
          IF text[i] # "\r" THEN text[i]
          ELSE IF i < Len(text) /\ text[i + 1] = "\n" THEN "" ELSE "\n"])

\* The k-th smallest position of the set cuts; 0 before the first and one
\* past the end of s after the last.
NthCut(s, cuts, k) ==
  IF k = 0 THEN 0
  ELSE IF k > Cardinality(cuts) THEN Len(s) + 1
  ELSE CHOOSE p \in cuts : Cardinality({q \in cuts : q < p}) = k - 1

\* The pieces of s between the positions of the set cuts, in order.
Pieces(s, cuts) ==
  [k \in 1..(Cardinality(cuts) + 1) |->
     SubSeq(s, NthCut(s, cuts, k - 1) + 1, NthCut(s, cuts, k) - 1)]

\* s.split(sep) for a one-character separator.
split(s, sep) == Pieces(s, Positions(s, {sep}))

\* The decimal rendering of a natural number, as a template literal gives it.
RECURSIVE numToString(_)
numToString(n) ==
  IF n < 10 THEN <<DigitSeq[n + 1]>>
  ELSE numToString(n \div 10) \o <<DigitSeq[(n % 10) + 1]>>

\* The natural number a string of decimal digits denotes.
RECURSIVE digitsToNat(_)
digitsToNat(s) ==
  IF s = <<>> THEN 0 ELSE 10 * digitsToNat(SubSeq(s, 1, Len(s) - 1)) + DigitVal(s[Len(s)])

AllDigits(s) == \A i \in DOMAIN s : s[i] \in Digits

\* ------------------------------------------------------------------------
\* Values of a parsed cell: number | string | null
\* ------------------------------------------------------------------------

\* A JavaScript value of a row. A finite number is kept exactly, as the
\* decimal digits of its magnitude without leading or trailing zeros (ds)
\* and a power of ten (exp): the value is ds * 10^exp. Zero has no digits.
NullVal == [t |-> "null", s |-> <<>>, neg |-> FALSE, ds |-> <<>>, exp |-> 0, inf |-> FALSE]

StrVal(str) == [NullVal EXCEPT !.t = "string", !.s = str]

NumVal(negative, digits, exponent) ==
  [NullVal EXCEPT !.t = "number", !.neg = negative, !.ds = digits, !.exp = exponent]

InfVal(negative) == [NullVal EXCEPT !.t = "number", !.neg = negative, !.inf = TRUE]

\* typeof v
typeof(v) == IF v.t = "null" THEN "object" ELSE v.t

RECURSIVE stripLeadingZeros(_)
stripLeadingZeros(ds) ==
  IF ds # <<>> /\ Head(ds) = "0" THEN stripLeadingZeros(Tail(ds)) ELSE ds

RECURSIVE trailingZeros(_)
trailingZeros(ds) ==
  IF ds # <<>> /\ ds[Len(ds)] = "0" THEN 1 + trailingZeros(SubSeq(ds, 1, Len(ds) - 1)) ELSE 0

\* The number with magnitude digits * 10^exponent.
Normalized(negative, d, z, exponent) ==
  IF d = <<>> THEN NumVal(negative, <<>>, 0)
  ELSE NumVal(negative, SubSeq(d, 1, Len(d) - z), exponent + z)

MakeNumber(negative, digits, exponent) ==
  Normalized(negative, stripLeadingZeros(digits),
             trailingZeros(stripLeadingZeros(digits)), exponent)

\* ------------------------------------------------------------------------
\* Number(string): the StringNumericLiteral grammar
\* ------------------------------------------------------------------------

NaN == [nan |-> TRUE, v |-> NullVal]

Finite(v) == [nan |-> FALSE, v |-> v]

HexSeq == <<"0", "1", "2", "3", "4", "5", "6", "7", "8", "9", "a", "b", "c", "d", "e", "f">>

RECURSIVE radixToNat(_, _)
radixToNat(s, radix) ==
  IF s = <<>> THEN 0
  ELSE radix * radixToNat(SubSeq(s, 1, Len(s) - 1), radix)
       + (IndexIn(HexSeq, LowerChar(s[Len(s)])) - 1)

IsRadixDigits(s, radix) ==
  /\ s # <<>>
  /\ \A i \in DOMAIN s :
       /\ LowerChar(s[i]) \in Range(HexSeq)
       /\ IndexIn(HexSeq, LowerChar(s[i])) <= radix

\* 0x.., 0o.., 0b.. : the radix of the prefix, or 0.
RadixOfPrefix(s) ==
  IF Len(s) < 2 \/ s[1] # "0" THEN 0
  ELSE IF LowerChar(s[2]) = "x" THEN 16
  ELSE IF LowerChar(s[2]) = "o" THEN 8
  ELSE IF LowerChar(s[2]) = "b" THEN 2
  ELSE 0

\* Whether s starts with a sign, and s without it.
IsSigned(s) == s # <<>> /\ Head(s) \in {"+", "-"}

IsNegative(s) == s # <<>> /\ Head(s) = "-"

Unsigned(s) == IF IsSigned(s) THEN Tail(s) ELSE s

\* The exponent part x of a decimal literal, what follows its e or E:
\* [+-]? digits. An absent part is given as the string "0".
exponentOk(x) == Unsigned(x) # <<>> /\ AllDigits(Unsigned(x))

exponentValue(x) == (IF IsNegative(x) THEN -1 ELSE 1) * digitsToNat(Unsigned(x))

\* The number of an unsigned decimal literal, from its integer digits, its
\* fraction digits, the count of its dots and its exponent part.
decimalOf(negative, int, frac, dots, x) ==
  IF dots <= 1 /\ AllDigits(int) /\ AllDigits(frac) /\ int \o frac # <<>> /\ exponentOk(x)
  THEN Finite(MakeNumber(negative, int \o frac, exponentValue(x) - Len(frac)))
  ELSE NaN

\* The mantissa is digits [. digits] | . digits
mantissaOf(negative, parts, x) ==
  decimalOf(negative, parts[1], IF Len(parts) >= 2 THEN parts[2] ELSE <<>>,
            Len(parts) - 1, x)

\* u is split at its first e or E, at position e (one past the end of u
\* when there is none).
splitExponent(negative, u, e) ==
  mantissaOf(negative, split(SubSeq(u, 1, e - 1), "."),
             IF e > Len(u) THEN <<"0">> ELSE SubSeq(u, e + 1, Len(u)))

Infinity == <<"I", "n", "f", "i", "n", "i", "t", "y">>

\* An unsigned literal: Infinity, or a decimal literal.
unsignedLiteral(negative, u) ==
  IF u = Infinity THEN Finite(InfVal(negative))
  ELSE splitExponent(negative, u,
                     IF Positions(u, {"e", "E"}) = {} THEN Len(u) + 1
                     ELSE Min(Positions(u, {"e", "E"})))

\* 0x.., 0o.., 0b..: the digits after the prefix, in the radix of the prefix.
radixLiteral(ds, radix) ==
  IF IsRadixDigits(ds, radix)
  THEN Finite(MakeNumber(FALSE, numToString(radixToNat(ds, radix)), 0))
  ELSE NaN

\* The number of a string without surrounding white space.
StringToNumber(s) ==
  IF s = <<>> THEN Finite(MakeNumber(FALSE, <<>>, 0))
  ELSE IF RadixOfPrefix(s) # 0 THEN radixLiteral(SubSeq(s, 3, Len(s)), RadixOfPrefix(s))
  ELSE unsignedLiteral(IsNegative(s), Unsigned(s))

\* Number(str): [nan |-> TRUE] when str is no numeric literal.
Number(str) == StringToNumber(trim(str))

\* ------------------------------------------------------------------------
\* new Date(val).toISOString().split('T')[0] for a D-Mon-YYYY cell
\* ------------------------------------------------------------------------

\* Date.parse of a string that is not in the ISO format is left to the host.
\* dateImpl is the host's choice: it rejects the string ("invalid"), or reads
\* it as local midnight in a zone at or west of UTC ("local"), whose UTC
\* calendar day is the same, or in a zone east of UTC ("local_east"), whose
\* UTC instant falls on the previous calendar day.
DateImpls == {"invalid", "local", "local_east"}

MonthNames ==
  << <<"j", "a", "n">>, <<"f", "e", "b">>, <<"m", "a", "r">>, <<"a", "p", "r">>,
     <<"m", "a", "y">>, <<"j", "u", "n">>, <<"j", "u", "l">>, <<"a", "u", "g">>,
     <<"s", "e", "p">>, <<"o", "c", "t">>, <<"n", "o", "v">>, <<"d", "e", "c">> >>

IsLeap(y) == (y % 4 = 0 /\ y % 100 # 0) \/ y % 400 = 0

DaysInMonth(y, m) ==
  IF m = 2 THEN (IF IsLeap(y) THEN 29 ELSE 28)
  ELSE IF m \in {4, 6, 9, 11} THEN 30 ELSE 31

\* /^(\d{1,2})-([A-Za-z]{3})-(\d{2,4})$/ on the parts between the dashes
isDayMonYear(parts) ==
  /\ Len(parts) = 3
  /\ Len(parts[1]) \in 1..2 /\ AllDigits(parts[1])
  /\ Len(parts[2]) = 3 /\ \A i \in 1..3 : parts[2][i] \in Letters
  /\ Len(parts[3]) \in 2..4 /\ AllDigits(parts[3])

dateMatchStr(val) == isDayMonYear(split(val, "-"))

\* The month of a three-letter name, or 0.
monthOf(mon) == IF mon \in Range(MonthNames) THEN IndexIn(MonthNames, mon) ELSE 0

\* The year of a two-digit year is of 1950..2049.
yearOf(digits, yy) ==
  IF Len(digits) = 2 THEN (IF yy < 50 THEN 2000 + yy ELSE 1900 + yy) ELSE yy

\* The calendar date of year y, month m (0: no month) and day d: a day past
\* the month's end rolls into the next month.
calendarDate(y, m, d) ==
  IF m # 0 /\ d > DaysInMonth(y, m)
  THEN [valid |-> dateImpl # "invalid" /\ d \in 1..31,
        y |-> IF m = 12 THEN y + 1 ELSE y, m |-> (m % 12) + 1, d |-> d - DaysInMonth(y, m)]
  ELSE [valid |-> dateImpl # "invalid" /\ m # 0 /\ d \in 1..31, y |-> y, m |-> m, d |-> d]

dateOfParts(parts) ==
  calendarDate(yearOf(parts[3], digitsToNat(parts[3])),
               monthOf(toLowerCase(parts[2])), digitsToNat(parts[1]))

\* new Date(val), for a val that dateMatchStr accepts: the local calendar
\* date the host reads.
DateOf(val) == dateOfParts(split(val, "-"))

PreviousDay(date) ==
  IF date.d > 1 THEN [date EXCEPT !.d = date.d - 1]
  ELSE IF date.m > 1
       THEN [date EXCEPT !.m = date.m - 1, !.d = DaysInMonth(date.y, date.m - 1)]
       ELSE [date EXCEPT !.y = date.y - 1, !.m = 12, !.d = 31]

isoOf(utc) ==
  padStart0(numToString(utc.y), 4) \o <<"-">> \o padStart0(numToString(utc.m), 2)
    \o <<"-">> \o padStart0(numToString(utc.d), 2)

\* d.toISOString().split('T')[0]
toISODate(date) == isoOf(IF dateImpl = "local_east" THEN PreviousDay(date) ELSE date)

\* /^\d{1,2}\/\d{1,2}\/\d{4}$/ on the parts between the slashes
isDayMonthYear(parts) ==
  /\ Len(parts) = 3
  /\ Len(parts[1]) \in 1..2 /\ AllDigits(parts[1])
  /\ Len(parts[2]) \in 1..2 /\ AllDigits(parts[2])
  /\ Len(parts[3]) = 4 /\ AllDigits(parts[3])

slashDateMatch(val) == isDayMonthYear(split(val, "/"))

\* ------------------------------------------------------------------------
\* parseCSVLine
\* ------------------------------------------------------------------------

\* The character loop, position by position: inQuotes at a character is
\* the parity of the double quotes before it; a comma met while inQuotes is
\* false ends the current value; a double quote is never added to current.
inQuotesAt(line, i) == Cardinality(Positions(SubSeq(line, 1, i - 1), {DQ})) % 2 = 1

valueEnds(line) == {i \in Positions(line, {","}) : ~inQuotesAt(line, i)}

withoutQuotes(spans) == [k \in DOMAIN spans |-> removeChar(spans[k], DQ)]

scanLine(line) == withoutQuotes(Pieces(line, valueEnds(line)))

\* The final values.map: a value still wrapped in quotes is unwrapped and
\* its doubled quotes are halved.
unwrapTrimmed(v, trimmed) ==
  IF startsWith(trimmed, <<DQ>>) /\ endsWith(trimmed, <<DQ>>)
  THEN halveQuotes(substring(trimmed, 1, Len(trimmed) - 1))
  ELSE v

unwrapQuoted(v) == unwrapTrimmed(v, trim(v))

unwrapAll(values) == [i \in DOMAIN values |-> unwrapQuoted(values[i])]

parseCSVLine(line) == unwrapAll(scanLine(line))

\* ------------------------------------------------------------------------
\* parseCSV: headers
\* ------------------------------------------------------------------------

\* A replacement that removes white space only.
keepNonSpace(s) == SelectSeq(s, LAMBDA c : c \notin WhiteSpace)

\* s.replace(/[^a-zA-Z0-9_]/g, '')
keepWordChars(s) == SelectSeq(s, IsWordChar)

\* A digit test without the ^ anchor.
digitGuardUnanchored(clean) ==
  IF \E i \in DOMAIN clean : clean[i] \in Digits THEN <<"_">> \o clean ELSE clean

\* The name of the header h at the 0-based position i, before deduplication.
digitGuard(clean) == IF clean[1] \in Digits THEN <<"_">> \o clean ELSE clean

namedOrIndexed(stripped, i) ==
  digitGuard(IF stripped = <<>> THEN <<"c", "o", "l", "_">> \o numToString(i) ELSE stripped)

cleanHeader(h, i) == namedOrIndexed(keepWordChars(replaceSpaceRuns(trim(h))), i)

\* An if in place of the while: one suffix, whether or not it is seen.
uniqueNameOnce(clean, seenHeaders, counter) ==
  IF clean \in seenHeaders THEN clean \o <<"_", "1">> ELSE clean

\* The while loop: clean, then clean_1, clean_2, ... until not seen.
RECURSIVE uniqueName(_, _, _)
uniqueName(clean, seenHeaders, counter) ==
  IF (IF counter = 0 THEN clean ELSE clean \o <<"_">> \o numToString(counter)) \in seenHeaders
  THEN uniqueName(clean, seenHeaders, counter + 1)
  ELSE IF counter = 0 THEN clean ELSE clean \o <<"_">> \o numToString(counter)

RECURSIVE sanitizeFrom(_, _, _)
sanitizeFrom(rawHeaders, i, done) ==
  IF i > Len(rawHeaders) THEN done
  ELSE sanitizeFrom(rawHeaders, i + 1,
         Append(done, uniqueName(cleanHeader(rawHeaders[i], i - 1), Range(done), 0)))

\* rawHeaders.map(...) with the seenHeaders set.
sanitizeHeaders(rawHeaders) == sanitizeFrom(rawHeaders, 1, <<>>)

\* ------------------------------------------------------------------------
\* parseCSV: cell values and rows
\* ------------------------------------------------------------------------

\* val.replace(/[%]/g, '').split('/')[0].trim()
numericClean(val) == trim(split(removeChar(val, "%"), "/")[1])

\* The phone heuristic taking any leading digit.
isPhoneLikeAnyDigit(val) == Len(val) = 10 /\ val[1] \in Digits

\* val.length === 10 && /^[6-9]/.test(val)
isPhoneLike(val) == Len(val) = 10 /\ val[1] \in {"6", "7", "8", "9"}

\* `${parts[2]}-${parts[1].padStart(2, '0')}-${parts[0].padStart(2, '0')}`
isoOfParts(parts) ==
  parts[3] \o <<"-">> \o padStart0(parts[2], 2) \o <<"-">> \o padStart0(parts[1], 2)

slashDateToISO(val) == isoOfParts(split(val, "/"))

\* The else branch: the date normalization of a trimmed val.
normalizeDate(val, date) ==
  IF dateMatchStr(val)
  THEN (IF date.valid THEN StrVal(toISODate(date)) ELSE StrVal(val))
  ELSE IF slashDateMatch(val) THEN StrVal(slashDateToISO(val))
  ELSE StrVal(val)

\* The value of a trimmed val, whose numeric-clean candidate is clean and
\* n = Number(clean).
convert(val, clean, n) ==
  IF clean # <<>> /\ ~n.nan
  THEN (IF isPhoneLike(val) THEN StrVal(val) ELSE n.v)
  ELSE normalizeDate(val, IF dateMatchStr(val) THEN DateOf(val) ELSE NullVal)

inferTrimmed(val) == convert(val, numericClean(val), Number(numericClean(val)))

\* The value stored for a cell that is a string.
inferString(raw) == inferTrimmed(trim(raw))

\* The value stored under the header at position index (1-based here):
\* values[index] is undefined past the end of the line.
inferValue(values, index) ==
  IF index <= Len(values) THEN inferString(values[index]) ELSE NullVal

\* An object is the sequence of its own enumerable properties, in the order
\* Object.keys lists them. The keys set here never are array indices (a
\* sanitized header does not start with a digit), so that order is the
\* order of insertion.
\* obj[key] = val on a plain object: "__proto__" is the accessor inherited
\* from Object.prototype, the assignment creates no own property.
ProtoKey == <<"_", "_", "p", "r", "o", "t", "o", "_", "_">>

ObjectSet(obj, key, val) ==
  IF key = ProtoKey THEN obj
  ELSE IF \E i \in DOMAIN obj : obj[i].k = key
       THEN [i \in DOMAIN obj |-> IF obj[i].k = key THEN [k |-> key, v |-> val] ELSE obj[i]]
       ELSE Append(obj, [k |-> key, v |-> val])

\* Object.keys(obj)
ObjectKeys(obj) == [i \in DOMAIN obj |-> obj[i].k]

\* headers.forEach((header, index) => ...) for one line's values.
RECURSIVE rowFrom(_, _, _, _)
rowFrom(headers, values, index, obj) ==
  IF index > Len(headers) THEN obj
  ELSE rowFrom(headers, values, index + 1,
               ObjectSet(obj, headers[index], inferValue(values, index)))

\* lines.filter(l => l.trim() !== '')
nonBlankLines(lines) == SelectSeq(lines, LAMBDA l : trim(l) # <<>>)

\* The rows one line gives: none when its only value is ''.
rowOrSkip(headers, values) ==
  IF values = << <<>> >> THEN <<>> ELSE <<rowFrom(headers, values, 1, <<>>)>>

\* The for loop over lines[1..].
RECURSIVE rowsFrom(_, _, _)
rowsFrom(headers, lines, i) ==
  IF i > Len(lines) THEN <<>>
  ELSE rowOrSkip(headers, parseCSVLine(lines[i])) \o rowsFrom(headers, lines, i + 1)

\* text.replace(/\r\n/g, '\n').replace(/\r/g, '\n').split('\n').filter(...)
csvLines(text) == nonBlankLines(split(normalizeLineEndings(text), "\n"))

parseLines(lines) ==
  IF Len(lines) < 2 THEN <<>>
  ELSE rowsFrom(sanitizeHeaders(parseCSVLine(lines[1])), lines, 2)

parseCSV(text) == parseLines(csvLines(text))

\* ------------------------------------------------------------------------
\* window.alasql, the SQL engine
\* ------------------------------------------------------------------------

\* The engine is a collaborator: loaded says whether window.alasql is set,
\* fn is the set of registered custom functions and tables maps each table
\* name to its data.
NoTables == [n \in {} |-> <<>>]

EngineAbsent == [loaded |-> FALSE, fn |-> {}, tables |-> NoTables]

EngineFresh == [loaded |-> TRUE, fn |-> {}, tables |-> NoTables]

\* getDb: registers CALC_AGE once and returns the engine; throws when
\* window.alasql is not set.
getDbThrows(db) == ~db.loaded

getDb(db) == [db EXCEPT !.fn = @ \cup {"CALC_AGE"}]

\* A statement naming no table is malformed, and the engine throws.
engineRejects(name) == name = <<>>

\* db(`DROP TABLE IF EXISTS ${name}`)
dropTableIfExists(tbls, name) == [n \in DOMAIN tbls \ {name} |-> tbls[n]]

\* db(`CREATE TABLE ${name}`)
createTable(tbls, name) == (name :> <<>>) @@ tbls

\* db.tables[name].data = rows
setTableData(tbls, name, rows) == [tbls EXCEPT ![name] = rows]

\* A loader that inserts into the table it finds instead of replacing it.
appendToTable(tbls, name, rows) ==
  IF name \in DOMAIN tbls THEN [tbls EXCEPT ![name] = @ \o rows] ELSE (name :> rows) @@ tbls

\* A loader that leaves a table it finds as it is: the first write wins.
keepTable(tbls, name, rows) ==
  IF name \in DOMAIN tbls THEN tbls ELSE (name :> rows) @@ tbls

\* Steps 3 and 4 of loadTableFromCSV: drop, create, assign the rows.
replaceTable(tbls, name, rows) ==
  setTableData(createTable(dropTableIfExists(tbls, name), name), name, rows)

\* ------------------------------------------------------------------------
\* loadTableFromCSV
\* ------------------------------------------------------------------------

\* Step 1: the sanitized table name.
\* s.replace(/[^a-zA-Z0-9_]/g, '_')
nonWordToUnderscore(s) == [i \in DOMAIN s |-> IF IsWordChar(s[i]) THEN s[i] ELSE "_"]

digitPrefixGuard(name) ==
  IF name # <<>> /\ name[1] \in Digits THEN <<"_">> \o name ELSE name

safeTableName(tableName) ==
  collapseUnderscores(digitPrefixGuard(nonWordToUnderscore(replaceSpaceRuns(tableName))))

\* csvContent.replace(/^\uFEFF/, '')
cleanContent(csvContent) ==
  IF csvContent # <<>> /\ Head(csvContent) = BOM THEN Tail(csvContent) ELSE csvContent

\* Step 5: the columns of the schema, typed from the first row.
inferColumns(firstRow) ==
  [i \in DOMAIN firstRow |->
     [name |-> firstRow[i].k,
      type |-> IF typeof(firstRow[i].v) = "number" THEN "NUMBER" ELSE "STRING"]]

NoSchema == [tableName |-> <<>>, columns |-> <<>>, rowCount |-> 0, sampleData |-> <<>>]

\* rows.slice(0, 3)
sampleOf(rows) == SubSeq(rows, 1, IF Len(rows) < 3 THEN Len(rows) ELSE 3)

\* What loadTableFromCSV gives: the engine afterwards, and either the schema
\* returned or the message of the error thrown.
Thrown(message, db) == [threw |-> TRUE, message |-> message, schema |-> NoSchema, db |-> db]

Returned(schema, db) == [threw |-> FALSE, message |-> "", schema |-> schema, db |-> db]

schemaOf(name, rows) ==
  [tableName |-> name, columns |-> inferColumns(rows[1]),
   rowCount |-> Len(rows), sampleData |-> sampleOf(rows)]

\* A loader that drops the table before it looks at the rows.
loadRowsDropFirst(db, name, rows) ==
  IF Len(rows) = 0
  THEN Thrown("CSV file is empty or could not be parsed",
              [db EXCEPT !.tables = dropTableIfExists(@, name)])
  ELSE IF engineRejects(name) THEN Thrown("Database error: parse error", db)
  ELSE Returned(schemaOf(name, rows), [db EXCEPT !.tables = replaceTable(@, name, rows)])

\* Steps 3 to 5, for the sanitized name and the parsed rows.
loadRows(db, name, rows) ==
  IF Len(rows) = 0 THEN Thrown("CSV file is empty or could not be parsed", db)
  ELSE IF engineRejects(name) THEN Thrown("Database error: parse error", db)
  ELSE Returned(schemaOf(name, rows), [db EXCEPT !.tables = replaceTable(@, name, rows)])

loadTableFromCSV(db, tableName, csvContent) ==
  IF getDbThrows(db) THEN Thrown("Database engine not initialized", db)
  ELSE loadRows(getDb(db), safeTableName(tableName), parseCSV(cleanContent(csvContent)))

\* ------------------------------------------------------------------------
\* executeSQL
\* ------------------------------------------------------------------------

\* What db(sql) gives: it throws with a message, or returns a value that is
\* an array of elements or is no array. An element is a keyed record (obj)
\* or a scalar (val).
EngineThrew(msg) == [threw |-> TRUE, message |-> msg, isArray |-> FALSE, elems |-> <<>>]

EngineArray(elems) == [threw |-> FALSE, message |-> "", isArray |-> TRUE, elems |-> elems]

EngineScalar == [threw |-> FALSE, message |-> "", isArray |-> FALSE, elems |-> <<>>]

RecordElem(obj) == [isObject |-> TRUE, obj |-> obj, val |-> NullVal]

ScalarElem(val) == [isObject |-> FALSE, obj |-> <<>>, val |-> val]

ValueKey == <<"v", "a", "l", "u", "e">>

\* A map that leaves every element as it is: a scalar has no keys.
normalizeRowUnkeyed(r) == IF r.isObject THEN r.obj ELSE <<>>

\* rows.map(r => (typeof r === 'object' && r !== null) ? r : { value: r })
normalizeRow(r) == IF r.isObject THEN r.obj ELSE <<[k |-> ValueKey, v |-> r.val]>>

\* The body of the try block, for what db(sql) returned.
queryResult(sql, normalizedRows) ==
  [data |-> normalizedRows,
   columns |-> IF Len(normalizedRows) > 0 THEN ObjectKeys(normalizedRows[1]) ELSE <<>>,
   sql |-> sql, hasError |-> FALSE, error |-> ""]

normalizeRows(rows) == [i \in DOMAIN rows |-> normalizeRow(rows[i])]

normalizeResult(sql, data) ==
  queryResult(sql, normalizeRows(IF data.isArray THEN data.elems ELSE <<>>))

\* executeSQL(sql) when db(sql) gives `data`: raised tells whether the call
\* threw instead of returning the QueryResult.
executeSQL(db, sql, data) ==
  IF getDbThrows(db)
  THEN [raised |-> TRUE, message |-> "Database engine not initialized",
        result |-> [data |-> <<>>, columns |-> <<>>, sql |-> sql,
                    hasError |-> FALSE, error |-> ""]]
  ELSE IF data.threw
  THEN [raised |-> FALSE, message |-> "",
        result |-> [data |-> <<>>, columns |-> <<>>, sql |-> sql,
                    hasError |-> TRUE, error |-> data.message]]
  ELSE [raised |-> FALSE, message |-> "", result |-> normalizeResult(sql, data)]

\* ------------------------------------------------------------------------
\* SqlVisualizer: the chart selection
\* ------------------------------------------------------------------------

\* columns.filter(key => typeof data[0][key] === type)
keysOfType(row, type) == ObjectKeys(SelectSeq(row, LAMBDA p : typeof(p.v) = type))

DateWord == <<"d", "a", "t", "e">>

YearWord == <<"y", "e", "a", "r">>

\* stringCols[0]?.toLowerCase().includes('date') || ...includes('year')
isTrend(stringCols) ==
  /\ stringCols # <<>>
  /\ \/ includes(toLowerCase(stringCols[1]), DateWord)
     \/ includes(toLowerCase(stringCols[1]), YearWord)

\* The first branch with < for <=.
isPieShapeUnderTen(n, stringCols, numericCols) ==
  n < 10 /\ Len(stringCols) = 1 /\ Len(numericCols) = 1

\* The first branch: data.length <= 10, one string and one numeric column.
isPieShape(n, stringCols, numericCols) ==
  n <= 10 /\ Len(stringCols) = 1 /\ Len(numericCols) = 1

\* The second branch: two numeric columns and data.length > 5.
isScatterShape(n, stringCols, numericCols) == Len(numericCols) = 2 /\ n > 5

NoChart == [chart |-> "none", x |-> <<>>, series |-> <<>>]

\* The chart for n rows whose first row has these columns.
selectChart(n, columns, stringCols, numericCols) ==
  IF isPieShape(n, stringCols, numericCols)
  THEN [chart |-> "pie", x |-> stringCols[1], series |-> <<numericCols[1]>>]
  ELSE IF isScatterShape(n, stringCols, numericCols)
  THEN [chart |-> "scatter", x |-> numericCols[1], series |-> <<numericCols[2]>>]
  ELSE [chart |-> IF isTrend(stringCols) THEN "line" ELSE "bar",
        x |-> IF stringCols # <<>> THEN stringCols[1]
              ELSE IF columns # <<>> THEN columns[1] ELSE <<>>,
        series |-> numericCols]

\* The chart SqlVisualizer renders for a result: its kind, the key of the
\* category or x axis, and the keys of the value series.
SqlVisualizer(result) ==
  IF Len(result.data) = 0 \/ result.hasError THEN NoChart
  ELSE selectChart(Len(result.data), ObjectKeys(result.data[1]),
                   keysOfType(result.data[1], "string"),
                   keysOfType(result.data[1], "number"))

\* ------------------------------------------------------------------------
\* constants.ts: the sample CSV data
\* ------------------------------------------------------------------------

SAMPLE_CSV_DATA_1 ==
  <<"S", "l", " ", "N", "o", ",", "U", "S", "N", ",", "N", "a", "m", "e", " ", "(", "C", "a",
    "p", "i", "t", "a", "l", " ", "L", "e", "t", "t", "e", "r", "s", ")", ",", "G", "e", "n",
    "d", "e", "r", ",", "M", "o", "b", "i", "l", "e", " ", "N", "o", ".", ",", "E", "M", "a",
    "i", "l", " ", "I", "D", ",", "N", "a", "m", "e", " ", "o", "f", " ", "t", "h", "e", " ",
    "c", "o", "m", "p", "a", "n", "y", ",", "1", "0", "t", "h", "%", " ", "o", "r", " ", "C",
    "G", "P", "A", "\n", "1", "0", "2", ",", "4", "B", "D", "1", "9", "C", "S", "0", "6", "4",
    ",", "P", "R", "I", "Y", "A", "N", "K", "A", " ", "A", " ", "R", ",", "F", ",", "7", "7",
    "9", "5", "6", "9", "7", "8", "7", "7", ",", "r", "a", "j", "k", "a", "m", "a", "l", "5",
    "1", "2", "0", "0", "1", "@", "g", "m", "a", "i", "l", ".", "c", "o", "m", ",", "A", "2",
    "M", " ", "T", "e", "c", "h", "n", "o", "l", "o", "g", "y", ",", "8", "1", "%", "\n", "3",
    "9", ",", "4", "B", "D", "1", "9", "C", "S", "0", "7", "5", ",", "S", "A", "H", "A", "N",
    "A", " ", "S", " ", "M", ",", "F", ",", "8", "9", "5", "1", "6", "6", "8", "6", "3", "9",
    ",", "s", "a", "h", "a", "n", "a", "s", "m", "4", "5", "@", "g", "m", "a", "i", "l", ".",
    "c", "o", "m", ",", "A", "c", "c", "o", "r", "d", ",", "8", "1", "%", "\n", "7", "8", ",",
    "4", "B", "D", "1", "9", "C", "S", "0", "1", "4", ",", "A", "N", "U", "S", "H", "A", " ",
    "Y", "A", "L", "L", "A", "P", "P", "A", " ", "H", "U", "N", "A", "G", "U", "N", "D", ",",
    "F", ",", "9", "0", "7", "1", "2", "7", "4", "3", "4", "7", ",", "a", "n", "u", "s", "h",
    "a", "y", "h", "4", "7", "@", "g", "m", "a", "i", "l", ".", "c", "o", "m", ",", "A", "c",
    "c", "o", "r", "d", ",", "8", "5", ".", "8", "3", "%", "\n", "9", ",", "4", "B", "D", "1",
    "9", "C", "S", "0", "1", "5", ",", "A", "R", "U", "N", " ", "K", "U", "M", "A", "R", " ",
    "S", "I", "D", "D", "A", "R", "A", "M", " ", "T", "E", "R", "A", "D", "A", "L", ",", "M",
    ",", "6", "3", "6", "0", "6", "0", "1", "1", "4", "0", ",", "a", "r", "u", "n", "k", "t",
    "8", "6", "1", "@", "g", "m", "a", "i", "l", ".", "c", "o", "m", ",", "A", "m", "a", "d",
    "e", "u", "s", " ", "L", "a", "b", "s", "/", "M", "a", "p", "l", "e", " ", "L", "a", "b",
    "s", ",", "8", "9", ".", "1", "6", "%">>

SAMPLE_CSV_DATA_2 ==
  <<"S", "l", " ", "N", "o", ",", "F", "u", "l", "l", " ", "N", "a", "m", "e", ",", "P", "r",
    "i", "m", "a", "r", "y", " ", "E", "m", "a", "i", "l", " ", "I", "d", ",", "G", "e", "n",
    "d", "e", "r", ",", "D", "a", "t", "e", " ", "o", "f", " ", "B", "i", "r", "t", "h", ",",
    "C", "o", "m", "p", "a", "n", "y", " ", "P", "l", "a", "c", "e", "d", ",", "1", "0", "t",
    "h", " ", "%", " ", "/", " ", "C", "G", "P", "A", ",", "U", "G", " ", "A", "g", "g", "r",
    " ", "C", "G", "P", "A", "\n", "1", ",", "A", "A", "R", "Y", "A", " ", "B", " ", "A", "N",
    "A", "P", "U", "R", ",", "a", "a", "r", "y", "a", "a", "n", "a", "p", "u", "r", "1", "7",
    "@", "g", "m", "a", "i", "l", ".", "c", "o", "m", ",", "F", "e", "m", "a", "l", "e", ",",
    "1", "7", "-", "S", "e", "p", "-", "2", "0", "0", "3", ",", ",", "8", "6", ".", "8", "0",
    " ", "%", ",", "7", ".", "8", "0", "\n", "2", ",", "A", "D", "I", "T", "H", "I", " ", "K",
    " ", "A", ",", "a", "d", "i", "t", "h", "i", "k", "a", "1", "3", "@", "g", "m", "a", "i",
    "l", ".", "c", "o", "m", ",", "F", "e", "m", "a", "l", "e", ",", "1", "3", "-", "F", "e",
    "b", "-", "2", "0", "0", "3", ",", "Q", "S", "p", "i", "d", "e", "r", "s", "/", "E", "c",
    "h", "o", " ", "B", "r", "a", "i", "n", "s", ",", "9", "3", ".", "4", "4", " ", "/", " ",
    "-", "-", "-", "-", "-", ",", "8", ".", "5", "0", "\n", "3", ",", "A", "I", "S", "I", "R",
    "I", " ", "S", "V", ",", "a", "i", "s", "i", "r", "i", "s", "v", "s", "v", "@", "g", "m",
    "a", "i", "l", ".", "c", "o", "m", ",", "F", "e", "m", "a", "l", "e", ",", "1", "3", "-",
    "J", "u", "l", "-", "2", "0", "0", "3", ",", ",", "8", "4", ".", "0", "0", " ", "/", " ",
    "-", "-", "-", "-", "-", ",", "8", ".", "2", "0">>

\* ------------------------------------------------------------------------
\* App.tsx: the inputs the user and the collaborators supply
\* ------------------------------------------------------------------------

\* The most logins, loads (uploads and sample loads) and questions one run
\* of the model starts.
MaxLogins == 1

MaxLoads == 2

MaxQuestions == 2

\* The most continuations that can be pending at once.
MaxPending == 2

\* A File the user can pick: its name, its text, and the number of data
\* rows that text holds.
File(name, text, rows) == [name |-> name, text |-> text, rows |-> rows]

Files ==
  { File(<<"a", ".", "c", "s", "v">>, <<"x", "\n", "1">>, 1),
    File(<<"a", ".", "c", "s", "v">>,
         <<"x", ",", "y", "\n", "1", ",", "u", "\n", "2", ",", "v">>, 2),
    File(<<"a", " ", "b", ".", "c", "s", "v">>, <<BOM, "x", "\r", "\n", "7">>, 1),
    File(<<"a", ".", "c", "s", "v">>, <<"x", "\n">>, 0),
    File(<<".", "c", "s", "v">>, <<"x", "\n", "1">>, 1) }

\* The sample data as files, under the names loadSampleData gives them.
StudentMarks1 ==
  <<"S", "t", "u", "d", "e", "n", "t", "_", "M", "a", "r", "k", "s", "_", "1">>

StudentMarks2 ==
  <<"S", "t", "u", "d", "e", "n", "t", "_", "M", "a", "r", "k", "s", "_", "2">>

SampleFile1 == File(StudentMarks1, SAMPLE_CSV_DATA_1, 4)

SampleFile2 == File(StudentMarks2, SAMPLE_CSV_DATA_2, 3)

\* What the user can have in the question box.
InputTexts == {<<>>, <<" ">>, <<"q">>}

\* The SQL the LLM can answer with, by its form.
Sql(kind, table) == [kind |-> kind, table |-> table]

NoSql == Sql("none", <<>>)

SqlKinds == {"select_all", "select_column", "select_value", "malformed"}

Queries == {Sql(kind, <<"a">>) : kind \in SqlKinds}

\* db(sql) for those forms: SELECT * gives the table's rows, SELECT COLUMN
\* the scalars of its first column, SELECT VALUE one scalar; a malformed
\* statement or an unknown table makes the engine throw.
EngineRun(db, sql) ==
  IF sql.kind = "malformed" THEN EngineThrew("Parse error")
  ELSE IF sql.table \notin DOMAIN db.tables THEN EngineThrew("Table does not exist")
  ELSE LET rows == db.tables[sql.table]
       IN IF sql.kind = "select_all"
          THEN EngineArray([i \in DOMAIN rows |-> RecordElem(rows[i])])
          ELSE IF sql.kind = "select_column"
          THEN EngineArray([i \in DOMAIN rows |->
                 ScalarElem(IF rows[i] = <<>> THEN NullVal ELSE rows[i][1].v)])
          ELSE EngineScalar

\* ------------------------------------------------------------------------
\* App.tsx: messages
\* ------------------------------------------------------------------------

\* The content of a message: a template and what it interpolates (a table
\* name, a row count, an error's message). A ChatMessage's id and timestamp
\* are drawn from Math.random and Date.now and read by no operation here.
Text(template, name, count, message) ==
  [template |-> template, name |-> name, count |-> count, message |-> message]

Plain(template) == Text(template, <<>>, 0, "")

ChatMessage(role, type, content) ==
  [role |-> role, type |-> type, content |-> content,
   sql |-> NoSql, hasData |-> FALSE, data |-> <<>>, explanation |-> Plain("")]

\* setMessages(prev => [msg, ...prev])
addMessageFirst(log, msg) == <<msg>> \o log

\* addMessage: setMessages(prev => [...prev, msg])
addMessage(log, msg) == Append(log, msg)

\* ------------------------------------------------------------------------
\* App.tsx: handleLogin and the view
\* ------------------------------------------------------------------------

Users == {<<>>, <<"u">>}

\* Login.handleSubmit and App.handleLogin: an empty username is refused by
\* the login form.
handleLogin(user) ==
  /\ view = "LOGIN"
  /\ steps.logins < MaxLogins
  /\ IF user = <<>>
     THEN UNCHANGED vars
     ELSE /\ geminiRef' = TRUE
          /\ view' = "DASHBOARD"
          /\ messages' = addMessage(messages,
                           ChatMessage("assistant", "text",
                                       Text("Welcome back, ${user}.", user, 0, "")))
          /\ steps' = [steps EXCEPT !.logins = @ + 1]
          /\ UNCHANGED <<tables, input, isLoading, showKaggleModal, alasql, uploads,
                         questions, history, dateImpl, call, ret>>

\* The Logout buttons: setView(AppView.LOGIN)
logout ==
  /\ view = "DASHBOARD"
  /\ view' = "LOGIN"
  /\ UNCHANGED <<tables, messages, input, isLoading, showKaggleModal, geminiRef, alasql,
                 uploads, questions, history, steps, dateImpl, call, ret>>

\* The question box (disabled while loading or without tables) and the
\* suggested questions (shown while the log is empty): setInput
setInput(text) ==
  /\ view = "DASHBOARD"
  /\ (~isLoading /\ Len(tables) > 0) \/ (Len(messages) = 0 /\ trim(text) # <<>>)
  /\ input' = text
  /\ input' # input
  /\ UNCHANGED <<view, tables, messages, isLoading, showKaggleModal, geminiRef, alasql,
                 uploads, questions, history, steps, dateImpl, call, ret>>

\* The Import from Kaggle button and the dialog's close button
setShowKaggleModal(open) ==
  /\ view = "DASHBOARD"
  /\ showKaggleModal = ~open
  /\ showKaggleModal' = open
  /\ UNCHANGED <<view, tables, messages, input, isLoading, geminiRef, alasql,
                 uploads, questions, history, steps, dateImpl, call, ret>>

\* ------------------------------------------------------------------------
\* App.tsx: processFile
\* ------------------------------------------------------------------------

\* s.replace(p, r) for a literal p: the first occurrence only.
Occurrences(s, p) == {i \in 1..(Len(s) - Len(p) + 1) : SubSeq(s, i, i + Len(p) - 1) = p}

replaceFirst(s, p, r) ==
  IF Occurrences(s, p) = {} THEN s
  ELSE SubSeq(s, 1, Min(Occurrences(s, p)) - 1) \o r
         \o SubSeq(s, Min(Occurrences(s, p)) + Len(p), Len(s))

\* file.name.replace('.csv', '').replace(/\s+/g, '_')
fileTableName(name) ==
  replaceSpaceRuns(replaceFirst(name, <<".", "c", "s", "v">>, <<>>))

RemoveAt(seq, i) == SubSeq(seq, 1, i - 1) \o SubSeq(seq, i + 1, Len(seq))

\* The history of loads: the file last loaded under each table name, the
\* rowCount that load returned, and whether another upload wrote that table
\* while this one was in flight.
RecordedAs(hist, schema, file, raced) ==
  (schema.tableName :> [file |-> file, rowCount |-> schema.rowCount, raced |-> raced]) @@ hist

Recorded(hist, schema, file) == RecordedAs(hist, schema, file, FALSE)

\* Two files that processFile loads under one sanitized table name.
SameTable(f, g) ==
  safeTableName(fileTableName(f.name)) = safeTableName(fileTableName(g.name))

\* The uploads still in flight after one of them has loaded `file`: those of
\* the same table name are marked as overtaken by a write to their table.
Overtaken(rest, file, load) ==
  IF load.threw THEN rest
  ELSE [j \in DOMAIN rest |->
          IF SameTable(rest[j].file, file) THEN [rest[j] EXCEPT !.overtaken = TRUE]
          ELSE rest[j]]

\* processFile up to its first await: the indicator is set and file.text()
\* is pending.
processFileBegins(file) ==
  /\ isLoading' = TRUE
  /\ uploads' = Append(uploads, [file |-> file, pc |-> "text", overtaken |-> FALSE])
  /\ steps' = [steps EXCEPT !.loads = @ + 1]

\* The sidebar's file input: handleFileUpload
handleFileUpload(file) ==
  /\ view = "DASHBOARD"
  /\ steps.loads < MaxLoads
  /\ processFileBegins(file)
  /\ UNCHANGED <<view, tables, messages, input, showKaggleModal, geminiRef, alasql,
                 questions, history, dateImpl, call, ret>>

\* The Kaggle dialog's file input: processFile, then the dialog closes.
kaggleFileChosen(file) ==
  /\ view = "DASHBOARD"
  /\ showKaggleModal
  /\ steps.loads < MaxLoads
  /\ processFileBegins(file)
  /\ showKaggleModal' = FALSE
  /\ UNCHANGED <<view, tables, messages, input, geminiRef, alasql,
                 questions, history, dateImpl, call, ret>>

\* file.text() resolves: processFile goes on to wait for its 100 ms timer.
fileTextResolves(i) ==
  /\ i \in DOMAIN uploads
  /\ uploads[i].pc = "text"
  /\ uploads' = [uploads EXCEPT ![i].pc = "timer"]
  /\ UNCHANGED <<view, tables, messages, input, isLoading, showKaggleModal, geminiRef,
                 alasql, questions, history, steps, dateImpl, call, ret>>

\* file.text() rejects: the catch block reports it and the finally block
\* clears the indicator.
fileTextRejects(i) ==
  /\ i \in DOMAIN uploads
  /\ uploads[i].pc = "text"
  /\ uploads' = RemoveAt(uploads, i)
  /\ messages' = addMessage(messages,
                   ChatMessage("system", "error",
                               Text("Error loading file: ${error.message}", <<>>, 0,
                                    "The file could not be read")))
  /\ isLoading' = FALSE
  /\ UNCHANGED <<view, tables, input, showKaggleModal, geminiRef, alasql, questions,
                 history, steps, dateImpl, call, ret>>

\* processFile after loadTableFromCSV: setTables and addMessage, or the catch
\* block.
fileLoaded(upload, load) ==
  /\ alasql' = load.db
  /\ IF load.threw
     THEN /\ messages' = addMessage(messages,
                           ChatMessage("system", "error",
                                       Text("Error loading file: ${error.message}",
                                            <<>>, 0, load.message)))
          /\ UNCHANGED <<tables, history>>
     ELSE /\ tables' = Append(tables, load.schema)
          /\ messages' = addMessage(messages,
                           ChatMessage("system", "text",
                                       Text("Successfully loaded table",
                                            load.schema.tableName,
                                            load.schema.rowCount, "")))
          /\ history' = RecordedAs(history, load.schema, upload.file, upload.overtaken)

\* The timer fires: loadTableFromCSV runs and its outcome is reported; the
\* finally block clears the indicator.
processFileResumes(i) ==
  /\ i \in DOMAIN uploads
  /\ uploads[i].pc = "timer"
  /\ fileLoaded(uploads[i],
                loadTableFromCSV(alasql, fileTableName(uploads[i].file.name),
                                 uploads[i].file.text))
  /\ uploads' = Overtaken(RemoveAt(uploads, i), uploads[i].file,
                          loadTableFromCSV(alasql, fileTableName(uploads[i].file.name),
                                           uploads[i].file.text))
  /\ isLoading' = FALSE
  /\ UNCHANGED <<view, input, showKaggleModal, geminiRef, questions, steps, dateImpl,
                 call, ret>>

\* ------------------------------------------------------------------------
\* App.tsx: loadSampleData
\* ------------------------------------------------------------------------

\* The catch block of loadSampleData
samplesFailed(message) ==
  messages' = addMessage(messages,
                ChatMessage("system", "error",
                            Text("Error loading samples: ${e.message}", <<>>, 0, message)))

\* After both loads, s1 and s2: setTables and the confirmation, or the catch
\* block when the second threw.
secondSampleLoaded(s1, s2) ==
  /\ alasql' = s2.db
  /\ IF s2.threw
     THEN /\ samplesFailed(s2.message)
          /\ history' = Recorded(history, s1.schema, SampleFile1)
          /\ UNCHANGED tables
     ELSE /\ tables' = tables \o <<s1.schema, s2.schema>>
          /\ messages' = addMessage(messages,
                           ChatMessage("system", "text",
                                       Plain("Loaded 2 sample datasets.")))
          /\ history' = Recorded(Recorded(history, s1.schema, SampleFile1),
                                 s2.schema, SampleFile2)

\* After the first load, s1: the second load, or the catch block.
firstSampleLoaded(s1) ==
  IF s1.threw
  THEN /\ samplesFailed(s1.message)
       /\ alasql' = s1.db
       /\ UNCHANGED <<tables, history>>
  ELSE secondSampleLoaded(s1, loadTableFromCSV(s1.db, StudentMarks2, SAMPLE_CSV_DATA_2))

\* Its awaits are of loadTableFromCSV, which never suspends: the handler
\* runs to its end before any other handler or continuation.
loadSampleData ==
  /\ view = "DASHBOARD"
  /\ steps.loads < MaxLoads
  /\ steps' = [steps EXCEPT !.loads = @ + 1]
  /\ isLoading' = FALSE
  /\ IF \E k \in DOMAIN tables : tables[k].tableName = StudentMarks1
     THEN /\ messages' = addMessage(messages,
                           ChatMessage("system", "text",
                                       Plain("Sample data is already loaded.")))
          /\ UNCHANGED <<tables, alasql, history>>
     ELSE firstSampleLoaded(loadTableFromCSV(alasql, StudentMarks1, SAMPLE_CSV_DATA_1))
  /\ UNCHANGED <<view, input, showKaggleModal, geminiRef, uploads, questions, dateImpl,
                 call, ret>>

\* ------------------------------------------------------------------------
\* App.tsx: handleSendMessage
\* ------------------------------------------------------------------------

\* A result message added whatever result.error holds.
resultMessageAlways(explanation, sql, result) ==
  [ChatMessage("assistant", "sql_result", Plain(explanation))
     EXCEPT !.sql = sql, !.hasData = TRUE, !.data = result.data,
            !.explanation = Plain(explanation)]

\* The message handleSendMessage adds for the outcome of executeSQL.
resultMessage(explanation, sql, result) ==
  IF result.hasError
  THEN [ChatMessage("assistant", "error", Plain(explanation))
          EXCEPT !.sql = sql,
                 !.explanation = Text("Error: ${result.error}", <<>>, 0, result.error)]
  ELSE [ChatMessage("assistant", "sql_result", Plain(explanation))
          EXCEPT !.sql = sql, !.hasData = TRUE, !.data = result.data,
                 !.explanation = Plain(explanation)]

\* A catch block that drops error.message.
failureMessageSilent(message) ==
  ChatMessage("assistant", "error", Text("Processing Failed: ${error.message}", <<>>, 0, ""))

\* The message of the catch block.
failureMessage(message) ==
  ChatMessage("assistant", "error", Text("Processing Failed: ${error.message}", <<>>, 0, message))

\* A submit without the check of tables.length.
noTablesIgnored == FALSE

\* if (tables.length === 0)
noTables == Len(tables) = 0

\* The form's submit, up to the await of generateSQL.
handleSendMessage ==
  /\ view = "DASHBOARD"
  /\ steps.questions < MaxQuestions
  /\ IF trim(input) = <<>> \/ isLoading
     THEN UNCHANGED vars
     ELSE IF noTables
     THEN /\ messages' = addMessage(messages,
                           ChatMessage("system", "error",
                                       Plain("Please upload a dataset or load samples first.")))
          /\ steps' = [steps EXCEPT !.questions = @ + 1]
          /\ UNCHANGED <<view, tables, input, isLoading, showKaggleModal, geminiRef, alasql,
                         uploads, questions, history, dateImpl, call, ret>>
     ELSE /\ input' = <<>>
          /\ steps' = [steps EXCEPT !.questions = @ + 1]
          /\ IF ~geminiRef
             THEN /\ messages' = addMessage(
                       addMessage(messages, ChatMessage("user", "text", Text("", input, 0, ""))),
                       failureMessage("Gemini Service not initialized"))
                  /\ isLoading' = FALSE
                  /\ UNCHANGED questions
             ELSE /\ messages' = addMessage(messages,
                                   ChatMessage("user", "text", Text("", input, 0, "")))
                  /\ isLoading' = TRUE
                  /\ questions' = Append(questions, [userQuery |-> input])
          /\ UNCHANGED <<view, tables, showKaggleModal, geminiRef, alasql, uploads,
                         history, dateImpl, call, ret>>

\* A catch block without the finally block.
generateSQLRejectsNoFinally(i) ==
  /\ i \in DOMAIN questions
  /\ questions' = RemoveAt(questions, i)
  /\ messages' = addMessage(messages,
                   failureMessage("Failed to generate SQL from the prompt."))
  /\ UNCHANGED <<view, tables, input, isLoading, showKaggleModal, geminiRef, alasql,
                 uploads, history, steps, dateImpl, call, ret>>

\* generateSQL rejects (the request failed, the response had no text or was
\* no JSON): the catch block reports it, the finally block clears the
\* indicator.
generateSQLRejects(i) ==
  /\ i \in DOMAIN questions
  /\ questions' = RemoveAt(questions, i)
  /\ messages' = addMessage(messages,
                   failureMessage("Failed to generate SQL from the prompt."))
  /\ isLoading' = FALSE
  /\ UNCHANGED <<view, tables, input, showKaggleModal, geminiRef, alasql, uploads,
                 history, steps, dateImpl, call, ret>>

\* generateSQL resolves with {sql, explanation}: executeSQL runs and its
\* outcome is reported; the finally block clears the indicator.
sqlExecuted(sql, run) ==
  /\ messages' = addMessage(messages,
                   IF run.raised THEN failureMessage(run.message)
                   ELSE resultMessage("explanation", sql, run.result))
  /\ alasql' = IF run.raised THEN alasql ELSE getDb(alasql)

generateSQLResolves(i, sql) ==
  /\ i \in DOMAIN questions
  /\ questions' = RemoveAt(questions, i)
  /\ sqlExecuted(sql, executeSQL(alasql, sql, EngineRun(alasql, sql)))
  /\ isLoading' = FALSE
  /\ UNCHANGED <<view, tables, input, showKaggleModal, geminiRef, uploads,
                 history, steps, dateImpl, call, ret>>

\* ------------------------------------------------------------------------
\* The application
\* ------------------------------------------------------------------------

NoCall == [fn |-> "none", arg |-> <<>>]

NoHistory == [n \in {} |-> [file |-> File(<<>>, <<>>, 0), rowCount |-> 0, raced |-> FALSE]]

Init ==
  /\ view = "LOGIN"
  /\ tables = <<>>
  /\ messages = <<>>
  /\ input = <<>>
  /\ isLoading = FALSE
  /\ showKaggleModal = FALSE
  /\ geminiRef = FALSE
  /\ alasql \in {EngineAbsent, EngineFresh}
  /\ uploads = <<>>
  /\ questions = <<>>
  /\ history = NoHistory
  /\ steps = [logins |-> 0, loads |-> 0, questions |-> 0]
  /\ dateImpl \in DateImpls
  /\ call = NoCall
  /\ ret = NoCall

Next ==
  \/ \E user \in Users : handleLogin(user)
  \/ logout
  \/ \E text \in InputTexts : setInput(text)
  \/ \E open \in BOOLEAN : setShowKaggleModal(open)
  \/ \E file \in Files : handleFileUpload(file)
  \/ \E file \in Files : kaggleFileChosen(file)
  \/ \E i \in 1..MaxPending : fileTextResolves(i)
  \/ \E i \in 1..MaxPending : fileTextRejects(i)
  \/ \E i \in 1..MaxPending : processFileResumes(i)
  \/ loadSampleData
  \/ handleSendMessage
  \/ \E i \in 1..MaxPending : generateSQLRejects(i)
  \/ \E i \in 1..MaxPending, sql \in Queries : generateSQLResolves(i, sql)

Spec == Init /\ [][Next]_vars

\* ------------------------------------------------------------------------
\* dbService and SqlVisualizer called on their own
\* ------------------------------------------------------------------------

\* The variables of the application, which a call of a pure function leaves
\* alone.
appVars ==
  <<view, tables, messages, input, isLoading, showKaggleModal, geminiRef, alasql,
    uploads, questions, history, steps, dateImpl>>

\* The application before its first operation, the engine loaded.
Mounted ==
  /\ view = "LOGIN"
  /\ tables = <<>>
  /\ messages = <<>>
  /\ input = <<>>
  /\ isLoading = FALSE
  /\ showKaggleModal = FALSE
  /\ geminiRef = FALSE
  /\ alasql = EngineFresh
  /\ uploads = <<>>
  /\ questions = <<>>
  /\ history = NoHistory
  /\ steps = [logins |-> 0, loads |-> 0, questions |-> 0]

Call(fn, arg) == [fn |-> fn, arg |-> arg]

Return(fn, val) == [fn |-> fn, val |-> val]

\* All sequences over the set S of a length up to n
SeqsUpTo(S, n) == UNION {[1..k -> S] : k \in 0..n}

\* The longest field, the most fields of a line, the longest generated cell
\* and the most data lines of a text.
MaxFieldLen == 2

MaxFields == 2

MaxCellLen == 3

MaxDataLines == 2

\* The fields a line is written from, and their lists.
Fields == SeqsUpTo({"a", ",", DQ}, MaxFieldLen)

FieldLists == SeqsUpTo(Fields, MaxFields) \ {<<>>}

\* A field as a CSV writer writes it: in double quotes, its own double
\* quotes doubled.
RECURSIVE QuotesDoubled(_)
QuotesDoubled(f) ==
  IF f = <<>> THEN <<>>
  ELSE (IF Head(f) = DQ THEN <<DQ, DQ>> ELSE <<Head(f)>>) \o QuotesDoubled(Tail(f))

QuotedField(f) == <<DQ>> \o QuotesDoubled(f) \o <<DQ>>

RECURSIVE JoinWith(_, _)
JoinWith(parts, sep) ==
  IF Len(parts) = 1 THEN parts[1]
  ELSE parts[1] \o <<sep>> \o JoinWith(Tail(parts), sep)

QuotedLine(fs) == JoinWith([i \in DOMAIN fs |-> QuotedField(fs[i])], ",")

Lines == {QuotedLine(fs) : fs \in FieldLists}

\* The cells of a one-column CSV text: the cells of the documentation, their
\* neighbours, and every short cell over the characters the conversion
\* looks at.
NamedCells ==
  { <<"8", "6", ".", "8", "0", " ", "%">>, <<"9", "3", ".", "4", "4", " ", "/", " ", "-", "-", "-", "-", "-">>, <<"9", "8", "7", "6", "5", "4", "3", "2", "1", "0">>, <<" ", "9", "8", "7", "6", "5", "4", "3", "2", "1", "0">>,
    <<"9", "8", "7", "6", "5", "4", "3", "2", "1", " ">>, <<"5", "8", "7", "6", "5", "4", "3", "2", "1", "0">>, <<"6", "0", "0", "0", "0", "0", "0", "0", "0", "0">>, <<"9", "8", "7", "6", "5", " ", "4", "3", "2", "1">>,
    <<"9", "3", ".", "4", "4", " ", "/", " ", "-", "-">>, <<"9", ".", "4", " ", "C", "G", "P", "A">>, <<"0", "5", "/", "0", "1", "/", "2", "0", "0", "1">>, <<"5", "/", "1", "/", "2", "0", "0", "1">>,
    <<"3", "1", "/", "1", "2", "/", "1", "9", "9", "9">>, <<"5", "/", "1", "3", "/", "2", "0", "0", "1">>, <<"1", "7", "-", "S", "e", "p", "-", "2", "0", "0", "3">>, <<"1", "-", "J", "a", "n", "-", "9", "9">>,
    <<"3", "1", "-", "F", "e", "b", "-", "2", "0", "2", "0">>, <<"1", "-", "F", "o", "o", "-", "2", "0", "2", "0">>, <<"a", "b", "c">>, <<"1", "2">>, <<"-", "3", ".", "5", "0">>,
    <<"1", "e", "3">>, <<"0", "x", "1", "F">>, <<"I", "n", "f", "i", "n", "i", "t", "y">>, <<"1", "2", "a", "b", "c">>, <<"1", ".", "2", ".", "3">>, <<" ", "7", " ">>,
    <<"0", "0", "7">>, <<"3", "/", "4">>, <<"5", "0", "%", "%">> }

Cells == NamedCells \cup (SeqsUpTo({"9", "%", "/", " ", "."}, MaxCellLen) \ {<<>>})

ColumnC == <<"c">>

CellText(cell) == ColumnC \o <<"\n">> \o cell

\* CSV texts of several columns: header lines with duplicate, blank,
\* digit-leading, quoted and inherited names, over data lines shorter and
\* longer than the header.
HeaderLines ==
  { <<"a", ",", "b">>, <<"a", ",", "a", ",", "a", "_", "1">>, <<"_", "_", "p", "r", "o", "t", "o", "_", "_", ",", "a">>, <<" ", "x", " ", "y", " ", ",", "1", "z">>, <<"a", ",", ",", "b">>,
    <<DQ, "a", ",", "b", DQ, ",", "c">>, <<"c", "o", "n", "s", "t", "r", "u", "c", "t", "o", "r", ",", "a">> }

DataLines == { <<"1">>, <<"1", ",", "2">>, <<"1", ",", "2", ",", "3">>, <<",">>, <<"u", ",", DQ, "v", ",", "w", DQ>> }

DataLineLists == SeqsUpTo(DataLines, MaxDataLines) \ {<<>>}

TableText(header, dataLines) == JoinWith(<<header>> \o dataLines, "\n")

Texts ==
  {CellText(cell) : cell \in Cells}
    \cup {TableText(h, ls) : h \in HeaderLines, ls \in DataLineLists}

\* parseCSVLine and parseCSV called on a line and on a text.
InitCSV ==
  /\ Mounted
  /\ dateImpl \in DateImpls
  /\ call \in {Call("parseCSVLine", line) : line \in Lines}
                \cup {Call("parseCSV", text) : text \in Texts}
  /\ ret = NoCall

parseCSVLineReturns ==
  /\ call.fn = "parseCSVLine"
  /\ ret.fn = "none"
  /\ ret' = Return("parseCSVLine", parseCSVLine(call.arg))
  /\ UNCHANGED <<appVars, call>>

parseCSVReturns ==
  /\ call.fn = "parseCSV"
  /\ ret.fn = "none"
  /\ ret' = Return("parseCSV", parseCSV(call.arg))
  /\ UNCHANGED <<appVars, call>>

NextCSV == parseCSVLineReturns \/ parseCSVReturns

SpecCSV == InitCSV /\ [][NextCSV]_vars

\* The results SqlVisualizer is given: up to MaxRows rows of up to
\* MaxColumns columns, every row of the shape of the first.
MaxRows == 11

MaxColumns == 3

Column(name, value) == [k |-> name, v |-> value]

Columns ==
  { Column(<<"Y", "e", "a", "r">>, StrVal(<<"2", "0", "2", "1">>)),
    Column(<<"G", "e", "n", "d", "e", "r">>, StrVal(<<"F">>)),
    Column(<<"L", "a", "s", "t", "_", "U", "p", "d", "a", "t", "e">>, StrVal(<<"2", "0", "0", "3", "-", "0", "9", "-", "1", "7">>)),
    Column(<<"M", "a", "r", "k", "s">>, NumVal(FALSE, <<"8", "6", "8">>, -1)),
    Column(<<"A", "g", "e">>, NumVal(FALSE, <<"2", "1">>, 0)),
    Column(<<"C", "o", "m", "p", "a", "n", "y">>, NullVal) }

FirstRows ==
  {row \in SeqsUpTo(Columns, MaxColumns) :
     row # <<>> /\ \A i, j \in DOMAIN row : row[i].k = row[j].k => i = j}

ResultOf(row, n) ==
  [data |-> [i \in 1..n |-> row], columns |-> ObjectKeys(row),
   sql |-> Sql("select_all", <<"a">>), hasError |-> FALSE, error |-> ""]

FailedResult ==
  [data |-> <<>>, columns |-> <<>>, sql |-> Sql("malformed", <<"a">>),
   hasError |-> TRUE, error |-> "Parse error"]

Results == {ResultOf(row, n) : row \in FirstRows, n \in 0..MaxRows} \cup {FailedResult}

InitChart ==
  /\ Mounted
  /\ dateImpl = "local"
  /\ call \in {Call("SqlVisualizer", result) : result \in Results}
  /\ ret = NoCall

SqlVisualizerRenders ==
  /\ call.fn = "SqlVisualizer"
  /\ ret.fn = "none"
  /\ ret' = Return("SqlVisualizer", SqlVisualizer(call.arg))
  /\ UNCHANGED <<appVars, call>>

NextChart == SqlVisualizerRenders

SpecChart == InitChart /\ [][NextChart]_vars

\* The engines executeSQL is called on: not loaded, without tables, and
\* after the load of one file and of two.
Loaded(db, file) == loadTableFromCSV(db, fileTableName(file.name), file.text).db

Engines ==
  {EngineAbsent, EngineFresh}
    \cup {Loaded(EngineFresh, file) : file \in Files}
    \cup {Loaded(Loaded(EngineFresh, first), file) : first \in Files, file \in Files}

Statements ==
  {Sql(kind, table) : kind \in SqlKinds,
                      table \in {<<"a">>, <<"a", "_", "b">>, <<"e">>, <<>>}}

InitSQL ==
  /\ Mounted
  /\ dateImpl = "local"
  /\ call \in {Call("executeSQL", [db |-> db, sql |-> sql]) : db \in Engines, sql \in Statements}
  /\ ret = NoCall

executeSQLReturns ==
  /\ call.fn = "executeSQL"
  /\ ret.fn = "none"
  /\ ret' = Return("executeSQL",
                   executeSQL(call.arg.db, call.arg.sql, EngineRun(call.arg.db, call.arg.sql)))
  /\ UNCHANGED <<appVars, call>>

NextSQL == executeSQLReturns

SpecSQL == InitSQL /\ [][NextSQL]_vars

\* The raw headers of a header line and the table names asked for: up to
\* MaxHeaders headers, and names of up to MaxNameLen characters.
MaxHeaders == 3

MaxNameLen == 3

RawNames ==
  { <<"N", "a", "m", "e">>, <<"N", "a", "m", "e", "_", "1">>, <<"n", "a", "m", "e">>, <<>>, <<" ">>, <<"1">>, <<"a", " ", "b">>,
    <<"1", "0", "t", "h", "%", " ", "o", "r", " ", "C", "G", "P", "A">>, <<"%">>, <<"_">>, <<" ", "x", "\t", " ", "y", " ">> }

RawHeaderLists == SeqsUpTo(RawNames, MaxHeaders) \ {<<>>}

TableNames ==
  SeqsUpTo({"a", "1", "_", " ", "%"}, MaxNameLen)
    \cup {<<"S", "t", "u", "d", "e", "n", "t", "_", "M", "a", "r", "k", "s", "_", "1">>, <<"2", "0", "2", "4", " ", "m", "a", "r", "k", "s", " ", "(", "f", "i", "n", "a", "l", ")">>}

\* The header sanitization of parseCSV and the name sanitization of
\* loadTableFromCSV, applied to raw headers and to a table name.
InitNames ==
  /\ Mounted
  /\ dateImpl = "local"
  /\ call \in {Call("sanitizeHeaders", raw) : raw \in RawHeaderLists}
                \cup {Call("safeTableName", name) : name \in TableNames}
  /\ ret = NoCall

sanitizeHeadersReturns ==
  /\ call.fn = "sanitizeHeaders"
  /\ ret.fn = "none"
  /\ ret' = Return("sanitizeHeaders", sanitizeHeaders(call.arg))
  /\ UNCHANGED <<appVars, call>>

safeTableNameReturns ==
  /\ call.fn = "safeTableName"
  /\ ret.fn = "none"
  /\ ret' = Return("safeTableName", safeTableName(call.arg))
  /\ UNCHANGED <<appVars, call>>

NextNames == sanitizeHeadersReturns \/ safeTableNameReturns

SpecNames == InitNames /\ [][NextNames]_vars

\* handleSendMessage on its own: the form is submitted in a dashboard with
\* or without a loaded table, with any text in the question box and with or
\* without the Gemini service, and the pending generateSQL call rejects or
\* resolves.
SessionOf(file, load) ==
  [tables |-> <<load.schema>>, alasql |-> load.db,
   history |-> Recorded(NoHistory, load.schema, file)]

Sessions ==
  {[tables |-> <<>>, alasql |-> db, history |-> NoHistory] : db \in {EngineAbsent, EngineFresh}}
    \cup {SessionOf(file, loadTableFromCSV(EngineFresh, fileTableName(file.name), file.text)) :
            file \in {f \in Files : f.rows > 0 /\ fileTableName(f.name) # <<>>}}

InitSend ==
  /\ view = "DASHBOARD"
  /\ \E session \in Sessions :
       /\ tables = session.tables
       /\ alasql = session.alasql
       /\ history = session.history
       /\ steps = [logins |-> 1, loads |-> Len(session.tables), questions |-> 0]
  /\ messages = <<ChatMessage("assistant", "text", Text("Welcome back, ${user}.", <<"u">>, 0, ""))>>
  /\ input \in InputTexts
  /\ isLoading = FALSE
  /\ showKaggleModal = FALSE
  /\ geminiRef \in BOOLEAN
  /\ uploads = <<>>
  /\ questions = <<>>
  /\ dateImpl = "local"
  /\ call = NoCall
  /\ ret = NoCall

NextSend ==
  \/ \E text \in InputTexts : setInput(text)
  \/ handleSendMessage
  \/ \E i \in 1..MaxPending : generateSQLRejects(i)
  \/ \E i \in 1..MaxPending, sql \in Queries : generateSQLResolves(i, sql)

SpecSend == InitSend /\ [][NextSend]_vars

\* The pending generateSQL call settles: its promise resolves or rejects.
generateSQLSettles ==
  \/ \E i \in 1..MaxPending : generateSQLRejects(i)
  \/ \E i \in 1..MaxPending, sql \in Queries : generateSQLResolves(i, sql)

SpecSendLive == SpecSend /\ WF_vars(generateSQLSettles)

\* The application with the same condition on its generateSQL calls.
SpecLive == Spec /\ WF_vars(generateSQLSettles)

\* ------------------------------------------------------------------------
\* Properties
\* ------------------------------------------------------------------------

\* C1: at most one question is in flight at a time; under every
\* interleaving of questions, uploads and sample loads, two LLM calls are
\* never outstanding at once in one session.
C1_OneQuestionInFlight == Len(questions) <= 1

\* Whether db(sql) fails for the engine and the statement of a call.
ExecutionFails(arg) == getDbThrows(arg.db) \/ EngineRun(arg.db, arg.sql).threw

\* C2: executeSQL never raises; for every statement and every engine state,
\* the engine not being initialized included, it returns a QueryResult, and
\* when the query failed that result has a non-empty error, empty data,
\* empty columns and the attempted sql.
C2_ExecuteSQLNeverRaises ==
  ret.fn = "executeSQL" =>
    /\ ~ret.val.raised
    /\ ExecutionFails(call.arg) =>
         /\ ret.val.result.hasError
         /\ ret.val.result.error # ""
         /\ ret.val.result.data = <<>>
         /\ ret.val.result.columns = <<>>
         /\ ret.val.result.sql = call.arg.sql

\* C3: loading a table name again replaces its rows; after any sequence of
\* successful loads the engine table of a sanitized name holds exactly the
\* rows of the latest successful load of that name (as many rows as that
\* file has, never a sum), and the rowCount returned by that load is that
\* number.
C3_ReloadReplaces ==
  \A name \in DOMAIN history :
    /\ name \in DOMAIN alasql.tables
    /\ Len(alasql.tables[name]) = history[name].file.rows
    /\ history[name].rowCount = history[name].file.rows
    /\ history[name].file \in Files =>
         alasql.tables[name] = parseCSV(cleanContent(history[name].file.text))

\* A table name has been loaded a second time, from a file with another
\* number of rows.
C3_Reloaded ==
  \E i, j \in DOMAIN tables :
    /\ i < j
    /\ tables[i].tableName = tables[j].tableName
    /\ tables[i].rowCount # tables[j].rowCount
    /\ tables[j].tableName \in DOMAIN history
    /\ Len(alasql.tables[tables[j].tableName]) = tables[j].rowCount

\* C4: the session's table list holds at most one TableSchema for each
\* tableName, the schema of the latest load, after any sequence of file
\* uploads and sample loads.
C4_OneSchemaPerTable ==
  \A i, j \in DOMAIN tables :
    tables[i].tableName = tables[j].tableName =>
      i = j /\ tables[i].rowCount = history[tables[i].tableName].rowCount

\* C5: every row parseCSV returns for a text with a header line and data
\* lines has exactly the sanitized, de-duplicated headers as its keys, in
\* header order, however many fields its line has; a field missing at the
\* end of a short line is stored as null and the fields past the header
\* count are dropped.
C5_RowKeysAreHeaders ==
  ret.fn = "parseCSV" =>
    \A h \in HeaderLines, ls \in DataLineLists :
      call.arg = TableText(h, ls) =>
        /\ Len(ret.val) = Len(ls)
        /\ \A r \in DOMAIN ret.val :
             /\ ObjectKeys(ret.val[r]) = sanitizeHeaders(parseCSVLine(h))
             /\ \A i \in DOMAIN ret.val[r] :
                  i > Len(parseCSVLine(ls[r])) => ret.val[r][i].v = NullVal

\* C6: a line is split at the commas outside double-quoted spans only; a
\* comma inside a quoted span belongs to the field, the enclosing quotes
\* are removed, and a doubled double quote inside a quoted span gives one
\* double quote in the field.
C6_QuotedFieldsRoundTrip ==
  ret.fn = "parseCSVLine" =>
    \A fs \in FieldLists : call.arg = QuotedLine(fs) => ret.val = fs

\* The value parseCSV stored for the one cell of a one-column text.
StoredCell == ret.val[1][1].v

ZeroPadded(ds) == IF Len(ds) = 1 THEN <<"0">> \o ds ELSE ds

\* C7: a cell D[D]/M[M]/YYYY is read as day/month/year and stored as the
\* zero-padded string YYYY-MM-DD; the cell "05/01/2001" is stored as the
\* string "2001-01-05".
C7_SlashDateStoredAsISO ==
  ret.fn = "parseCSV" =>
    /\ call.arg = CellText(<<"0", "5", "/", "0", "1", "/", "2", "0", "0", "1">>) => StoredCell = StrVal(<<"2", "0", "0", "1", "-", "0", "1", "-", "0", "5">>)
    /\ \A d, m \in SeqsUpTo(Digits, 2) \ {<<>>}, y \in {<<"2", "0", "0", "1">>, <<"1", "9", "9", "9">>} :
         call.arg = CellText(d \o <<"/">> \o m \o <<"/">> \o y) =>
           StoredCell = StrVal(y \o <<"-">> \o ZeroPadded(m) \o <<"-">> \o ZeroPadded(d))

\* The numeric-clean candidate of a cell: every '%' removed, everything
\* from the first '/' discarded, trimmed.
WithoutPercent(cell) == SelectSeq(cell, LAMBDA ch : ch # "%")

BeforeSlash(s) ==
  IF \E i \in DOMAIN s : s[i] = "/"
  THEN SubSeq(s, 1, (CHOOSE i \in DOMAIN s : s[i] = "/" /\ \A j \in 1..(i - 1) : s[j] # "/") - 1)
  ELSE s

Candidate(cell) == trim(BeforeSlash(WithoutPercent(cell)))

HasNumericCandidate(cell) == Candidate(cell) # <<>> /\ ~Number(Candidate(cell)).nan

TenFromSixToNine(s) == Len(s) = 10 /\ s[1] \in {"6", "7", "8", "9"}

\* C8, as stated: a cell whose numeric-clean candidate is non-empty and
\* parses as a number is stored as that number, unless the original cell
\* value is exactly 10 characters long and starts with a digit 6-9, and
\* then it is kept as a string.
C8_PhoneTestOnOriginalCell ==
  ret.fn = "parseCSV" =>
    \A cell \in Cells :
      call.arg = CellText(cell) /\ HasNumericCandidate(cell) =>
        IF TenFromSixToNine(cell)
        THEN typeof(StoredCell) = "string"
        ELSE StoredCell = Number(Candidate(cell)).v

\* C8, amended: a cell whose numeric-clean candidate is non-empty and
\* parses as a number is stored as that number, unless the cell with its
\* surrounding white space trimmed is exactly 10 characters long and starts
\* with a digit 6-9, and then that trimmed cell is kept as a string; so
\* "86.80 %" becomes 86.8, "93.44 / -----" becomes 93.44 and "9876543210"
\* stays the string "9876543210".
C8_NumericUnlessPhoneLike ==
  ret.fn = "parseCSV" =>
    /\ \A cell \in Cells :
         call.arg = CellText(cell) /\ HasNumericCandidate(cell) =>
           IF TenFromSixToNine(trim(cell))
           THEN StoredCell = StrVal(trim(cell))
           ELSE StoredCell = Number(Candidate(cell)).v
    /\ call.arg = CellText(<<"8", "6", ".", "8", "0", " ", "%">>) => StoredCell = NumVal(FALSE, <<"8", "6", "8">>, -1)
    /\ call.arg = CellText(<<"9", "3", ".", "4", "4", " ", "/", " ", "-", "-", "-", "-", "-">>) => StoredCell = NumVal(FALSE, <<"9", "3", "4", "4">>, -2)
    /\ call.arg = CellText(<<"9", "8", "7", "6", "5", "4", "3", "2", "1", "0">>) => StoredCell = StrVal(<<"9", "8", "7", "6", "5", "4", "3", "2", "1", "0">>)

\* A phone number behind a space has been kept as a string.
C8_PaddedPhoneKept ==
  /\ ret.fn = "parseCSV"
  /\ call.arg = CellText(<<" ", "9", "8", "7", "6", "5", "4", "3", "2", "1", "0">>)
  /\ StoredCell = StrVal(<<"9", "8", "7", "6", "5", "4", "3", "2", "1", "0">>)

\* The names of the columns of a row whose value is of the type.
NamesOfType(row, type) ==
  [i \in 1..Cardinality({j \in DOMAIN row : typeof(row[j].v) = type}) |->
     row[CHOOSE j \in DOMAIN row :
           /\ typeof(row[j].v) = type
           /\ Cardinality({l \in 1..j : typeof(row[l].v) = type}) = i].k]

\* C9: a result of 4 rows with one string column named Year and one numeric
\* column is rendered as a line chart.
C9_YearTrendIsLine ==
  ( /\ ret.fn = "SqlVisualizer"
    /\ Len(call.arg.data) = 4
    /\ ~call.arg.hasError
    /\ NamesOfType(call.arg.data[1], "string") = <<<<"Y", "e", "a", "r">>>>
    /\ Len(NamesOfType(call.arg.data[1], "number")) = 1 )
  => ret.val.chart = "line"

\* The name contains the word, whatever the case of its letters.
Mentions(name, word) ==
  \E i \in 1..(Len(name) - Len(word) + 1) :
    \A j \in DOMAIN word : LowerChar(name[i + j - 1]) = word[j]

\* The chart of the classification order, for the row count and the names
\* of the string-typed and of the numeric-typed columns of the first row.
FirstMatch(n, strings, numbers) ==
  IF n <= 10 /\ Len(strings) = 1 /\ Len(numbers) = 1 THEN "pie"
  ELSE IF Len(numbers) = 2 /\ n > 5 THEN "scatter"
  ELSE IF strings # <<>> /\ (Mentions(strings[1], <<"d", "a", "t", "e">>) \/ Mentions(strings[1], <<"y", "e", "a", "r">>))
  THEN "line"
  ELSE "bar"

C11_HeadersPairwiseDistinct ==
  ret.fn = "sanitizeHeaders" =>
    /\ Len(ret.val) = Len(call.arg)
    /\ \A i, j \in DOMAIN ret.val : ret.val[i] = ret.val[j] => i = j
    /\ call.arg = <<<<"N", "a", "m", "e">>, <<"N", "a", "m", "e">>>> => ret.val = <<<<"N", "a", "m", "e">>, <<"N", "a", "m", "e", "_", "1">>>>
    /\ call.arg = <<<<"N", "a", "m", "e">>, <<"N", "a", "m", "e", "_", "1">>, <<"N", "a", "m", "e">>>> =>
         ret.val = <<<<"N", "a", "m", "e">>, <<"N", "a", "m", "e", "_", "1">>, <<"N", "a", "m", "e", "_", "2">>>>

\* The headers Name, Name_1, Name have been sanitized.
C11_SuffixedNameTaken ==
  /\ ret.fn = "sanitizeHeaders"
  /\ call.arg = <<<<"N", "a", "m", "e">>, <<"N", "a", "m", "e", "_", "1">>, <<"N", "a", "m", "e">>>>
  /\ ret.val[3] = <<"N", "a", "m", "e", "_", "2">>

\* A sanitized identifier: non-empty, of letters, digits and underscores,
\* not starting with a digit.
IsIdentifier(name) ==
  /\ name # <<>>
  /\ \A i \in DOMAIN name : name[i] \in Letters \cup Digits \cup {"_"}
  /\ name[1] \notin Digits

\* C12: every column name header sanitization produces is a sanitized
\* identifier; the header "10th% or CGPA" gives a name without '%', without
\* space and without a leading digit.
C12_HeadersAreIdentifiers ==
  ret.fn = "sanitizeHeaders" => \A i \in DOMAIN ret.val : IsIdentifier(ret.val[i])

\* The header "10th% or CGPA" has been sanitized, to _10th_or_CGPA.
C12_TenthHeaderSanitized ==
  /\ ret.fn = "sanitizeHeaders"
  /\ call.arg = <<<<"1", "0", "t", "h", "%", " ", "o", "r", " ", "C", "G", "P", "A">>>>
  /\ ret.val = <<<<"_", "1", "0", "t", "h", "_", "o", "r", "_", "C", "G", "P", "A">>>>

\* C13: header sanitization is idempotent; sanitizing a name that is the
\* output of header sanitization returns it unchanged.
C13_SanitizationIdempotent ==
  ret.fn = "sanitizeHeaders" =>
    /\ sanitizeHeaders(ret.val) = ret.val
    /\ \A i \in DOMAIN ret.val : sanitizeHeaders(<<ret.val[i]>>) = <<ret.val[i]>>

\* Headers that sanitization changes (a digit-leading one, a blank one and
\* a duplicate) have been sanitized.
C13_ChangedHeadersSanitized ==
  /\ ret.fn = "sanitizeHeaders"
  /\ call.arg = <<<<"1">>, <<" ">>, <<"1">>>>
  /\ ret.val = <<<<"_", "1">>, <<"c", "o", "l", "_", "1">>, <<"_", "1", "_", "1">>>>

\* C14: for every table name asked for, the empty one and those of invalid
\* characters only included, the sanitized name is a SQL-safe identifier:
\* non-empty, of letters, digits and underscores, not starting with a digit
\* and without repeated underscores.
C14_TableNameIsSQLSafe ==
  ret.fn = "safeTableName" =>
    /\ IsIdentifier(ret.val)
    /\ \A i \in 1..(Len(ret.val) - 1) : ~(ret.val[i] = "_" /\ ret.val[i + 1] = "_")

\* A step that finishes the processing of an accepted question: the throw
\* of "Gemini Service not initialized" inside the submit, or the settling
\* of the question's generateSQL call.
ServiceMissing ==
  /\ Len(tables) > 0
  /\ steps'.questions > steps.questions
  /\ questions' = questions

QuestionSettles == Len(questions') < Len(questions)

\* C15: every accepted question returns the orchestrator to Idle: the
\* loading indicator is cleared by the step that finishes the question on
\* every branch (service not initialized, LLM failure, execution error,
\* execution success), and, the LLM call eventually resolving or rejecting,
\* pending questions lead to no pending question and no loading indicator.
C15_QuestionReturnsToIdle ==
  /\ [][(ServiceMissing \/ QuestionSettles) => ~isLoading']_vars
  /\ (questions # <<>>) ~> (questions = <<>> /\ ~isLoading)

\* Two questions have been processed, one to an execution error and one to
\* a result, and the orchestrator is idle.
C15_IdleAfterTwoQuestions ==
  /\ steps.questions = 2
  /\ questions = <<>>
  /\ ~isLoading
  /\ Len(messages) = 5
  /\ messages[3].type = "error" /\ messages[3].sql # NoSql
  /\ messages[5].type = "sql_result"

\* The message a step appends to the log.
Emitted == messages'[Len(messages')]

EmitsOne == Len(messages') = Len(messages) + 1

\* C16: when the LLM call fails the orchestrator emits exactly one
\* assistant-role message of type error carrying the failure reason, does
\* not invoke the Query Executor for that question (the engine is left as it
\* was and the message has no SQL and no rows), does not retry (the call is
\* no longer pending and none is started), and the indicator is cleared.
C16_LLMFailureReported ==
  [][\A i \in 1..MaxPending :
       generateSQLRejects(i) =>
         /\ EmitsOne
         /\ Emitted.role = "assistant"
         /\ Emitted.type = "error"
         /\ Emitted.content.template = "Processing Failed: ${error.message}"
         /\ Emitted.content.message = "Failed to generate SQL from the prompt."
         /\ Emitted.sql = NoSql /\ ~Emitted.hasData /\ Emitted.data = <<>>
         /\ alasql' = alasql
         /\ Len(questions') = Len(questions) - 1
         /\ steps' = steps
         /\ ~isLoading']_vars

\* A question's LLM call has failed: the log ends with the user's question
\* and the failure message, and nothing is pending.
C16_FailureInLog ==
  /\ Len(messages) >= 3
  /\ messages[Len(messages) - 1].role = "user"
  /\ messages[Len(messages)].role = "assistant"
  /\ messages[Len(messages)].content.message = "Failed to generate SQL from the prompt."
  /\ questions = <<>>
  /\ ~isLoading

\* What the message for the SQL answered by the LLM must carry, given what
\* db(sql) does on the engine.
CarriesOutcome(m, sql, outcome, rows) ==
  /\ m.role = "assistant"
  /\ m.sql = sql
  /\ m.content = Plain("explanation")
  /\ IF outcome.threw
     THEN /\ m.type = "error"
          /\ m.explanation.template = "Error: ${result.error}"
          /\ m.explanation.message = outcome.message
          /\ ~m.hasData
     ELSE /\ m.type = "sql_result"
          /\ m.explanation = Plain("explanation")
          /\ m.hasData
          /\ m.data = rows

\* C17: after a successful LLM call the orchestrator emits exactly one
\* assistant-role message: of type error with the explanation, the
\* execution error text and the attempted SQL when the query failed, of
\* type sql_result with the SQL, the explanation and the result rows when
\* (and only when) it executed without failure.
C17_AnswerReflectsExecution ==
  [][\A i \in 1..MaxPending, sql \in Queries :
       generateSQLResolves(i, sql) =>
         /\ EmitsOne
         /\ CarriesOutcome(Emitted, sql, EngineRun(alasql, sql),
                           executeSQL(alasql, sql, EngineRun(alasql, sql)).result.data)]_vars

\* Both outcomes have been reported: a failed query as an error with its
\* SQL, and a query returning rows as a sql_result.
C17_BothOutcomesInLog ==
  /\ \E i \in DOMAIN messages :
       /\ messages[i].type = "error"
       /\ messages[i].sql.kind = "malformed"
       /\ messages[i].explanation.message = "Parse error"
  /\ \E i \in DOMAIN messages :
       /\ messages[i].type = "sql_result"
       /\ messages[i].sql.kind = "select_all"
       /\ messages[i].data # <<>>

\* C18: a question submitted while no table is loaded short-circuits: one
\* error message that is not of the user role is emitted, no LLM call is
\* started, no query runs, and the loading indicator stays unset.
C18_NoTableShortCircuits ==
  [][(handleSendMessage /\ Len(tables) = 0 /\ trim(input) # <<>> /\ ~isLoading) =>
       /\ EmitsOne
       /\ SubSeq(messages', 1, Len(messages)) = messages
       /\ Emitted.type = "error"
       /\ Emitted.role = "system"
       /\ Emitted.content = Plain("Please upload a dataset or load samples first.")
       /\ questions' = questions
       /\ alasql' = alasql
       /\ ~isLoading'
       /\ input' = input
       /\ tables' = tables]_vars

\* A question has been submitted without a table: the log ends with the
\* error message and the orchestrator is idle.
C18_ShortCircuited ==
  /\ Len(tables) = 0
  /\ trim(input) # <<>>
  /\ steps.questions > 0
  /\ messages[Len(messages)].content = Plain("Please upload a dataset or load samples first.")
  /\ \A i \in DOMAIN messages : messages[i].role # "user"
  /\ questions = <<>>
  /\ ~isLoading

\* C19: the message log is append-only: every step of the application, in
\* any interleaving of login, uploads, sample load, submissions and their
\* completions, leaves the messages already in the log as they are, in
\* their order, and adds new ones at the end only.
C19_LogAppendOnly ==
  [][/\ Len(messages') >= Len(messages)
     /\ SubSeq(messages', 1, Len(messages)) = messages]_vars

\* An upload's message has landed between a question and its answer.
C19_InterleavedLog ==
  \E i \in DOMAIN messages :
    /\ i + 2 <= Len(messages)
    /\ messages[i].role = "user"
    /\ messages[i + 1].role = "system"
    /\ messages[i + 2].role = "assistant"

\* The keys of a row, in order.
KeysOf(row) == [j \in DOMAIN row |-> row[j].k]

\* What executeSQL must return for the element at i of an array result.
NormalizedAs(row, elem) ==
  IF elem.isObject THEN row = elem.obj
  ELSE row = <<[k |-> ValueKey, v |-> elem.val]>>

UniformShape(result, data) ==
  /\ ~data.isArray => result.data = <<>>
  /\ data.isArray =>
       /\ Len(result.data) = Len(data.elems)
       /\ \A i \in DOMAIN data.elems : NormalizedAs(result.data[i], data.elems[i])
  /\ result.columns = IF result.data = <<>> THEN <<>> ELSE KeysOf(result.data[1])
  /\ result.sql = call.arg.sql

\* C20: executeSQL normalizes every successful engine result: a non-array
\* result gives zero rows, an array element that is no keyed record becomes
\* the row {value: element} and a keyed record stays as it is, and columns
\* are the keys of the first normalized row, or empty without rows.
C20_ResultsNormalized ==
  (ret.fn = "executeSQL" /\ ~ret.val.raised /\ ~EngineRun(call.arg.db, call.arg.sql).threw) =>
    /\ ~ret.val.result.hasError
    /\ UniformShape(ret.val.result, EngineRun(call.arg.db, call.arg.sql))

\* A query returning the scalar 1 has given the one row {value: 1}.
C20_ScalarWrapped ==
  /\ ret.fn = "executeSQL"
  /\ call.arg.sql.kind = "select_column"
  /\ Len(ret.val.result.data) = 1
  /\ ret.val.result.columns = <<ValueKey>>
  /\ ret.val.result.data[1] = <<[k |-> ValueKey, v |-> inferString(<<"1">>)]>>

\* The rows a file parses to, and the table name processFile loads it under.
RowsOf(file) == parseCSV(cleanContent(file.text))

TableNameOf(file) == safeTableName(fileTableName(file.name))

\* What the registry must be after the upload of `file` has gone through
\* loadTableFromCSV on the registry `before`.
WrittenWhole(before, after, file) ==
  IF RowsOf(file) = <<>> \/ TableNameOf(file) = <<>>
  THEN after = before
  ELSE /\ TableNameOf(file) \in DOMAIN after
       /\ after[TableNameOf(file)] = RowsOf(file)
       /\ \A n \in DOMAIN before \ {TableNameOf(file)} : n \in DOMAIN after /\ after[n] = before[n]

\* C21: uploads of one sanitized table name running at once write the
\* engine's table registry one after the other, and the last write wins:
\* each upload's write leaves the table with exactly the rows of its file
\* (no rows of the other file, never none), no other step touches the
\* tables, and so the table holds the rows of the load that wrote last.
C21_LastWriteWins ==
  [][/\ \A i \in 1..MaxPending :
          (processFileResumes(i) /\ alasql.loaded) =>
             WrittenWhole(alasql.tables, alasql'.tables, uploads[i].file)
     /\ (\A i \in 1..MaxPending : ~processFileResumes(i)) /\ ~loadSampleData =>
          alasql'.tables = alasql.tables]_vars

\* Two uploads of the table a, from files of different rows, were in flight
\* at once and both have written: the table holds the rows of the second
\* write.
C21_RaceSettled ==
  /\ uploads = <<>>
  /\ <<"a">> \in DOMAIN history
  /\ history[<<"a">>].raced
  /\ \E k \in DOMAIN tables :
       /\ tables[k].tableName = <<"a">>
       /\ tables[k].rowCount # history[<<"a">>].rowCount
  /\ alasql.tables[<<"a">>] = RowsOf(history[<<"a">>].file)

\* C22: a load whose CSV parses to zero rows changes nothing: every table
\* of the engine keeps its rows, the one registered under the file's name
\* included, the session's table list is unchanged, one system-role error
\* message is appended and the loading indicator is cleared.
C22_EmptyLoadChangesNothing ==
  [][\A i \in 1..MaxPending :
       (processFileResumes(i) /\ alasql.loaded /\ RowsOf(uploads[i].file) = <<>>) =>
          /\ alasql'.tables = alasql.tables
          /\ tables' = tables
          /\ history' = history
          /\ Len(messages') = Len(messages) + 1
          /\ SubSeq(messages', 1, Len(messages)) = messages
          /\ messages'[Len(messages')].role = "system"
          /\ messages'[Len(messages')].type = "error"
          /\ messages'[Len(messages')].content.message =
               "CSV file is empty or could not be parsed"
          /\ ~isLoading']_vars

\* A file without rows has been uploaded under the name of a loaded table:
\* the log ends with the error and the table still has its rows.
C22_EmptyFileRefused ==
  /\ uploads = <<>>
  /\ steps.loads = 2
  /\ Len(tables) = 1
  /\ tables[1].tableName = <<"a">>
  /\ alasql.tables[<<"a">>] # <<>>
  /\ messages[Len(messages)].content.message = "CSV file is empty or could not be parsed"
  /\ ~isLoading

\* C23: the loading indicator is set in every state in which an operation is
\* in flight: while a question's LLM call has not returned or an upload has
\* not completed, isLoading is true.
C23_LoadingWhileInFlight == (uploads # <<>> \/ questions # <<>>) => isLoading

====
